---- MODULE Spec2Model ----
(***************************************************************************)
(* A model of uw_oidc: the ID-token verifier (uw_oidc/id_token.py) and the *)
(* authentication middleware (uw_oidc/middleware.py).                      *)
(*                                                                         *)
(* Strings that the code takes apart (the Authorization header value, the  *)
(* token, the subject) are sequences of symbols.  A symbol is a character, *)
(* or one whole base64url segment of a token: the segments are decoded by  *)
(* the tables HeaderJson, PayloadJson and SignatureOf below.               *)
(* PyJWT is modelled as release 1.7, the API JWT_OPTIONS is written for.   *)
(* The settings UW_TOKEN_ISSUER and UW_TOKEN_AUDIENCE are taken as set.    *)
(***************************************************************************)
EXTENDS Integers, Sequences, FiniteSets, TLC

(* ------------------------------------------------------------------ *)
(* Bounds of the model                                                 *)
(* ------------------------------------------------------------------ *)

\* The server clock when the model starts, in seconds.
Now0 == 1000

\* How many seconds the clock may advance while requests are handled.
MaxTick == 1

\* The non-zero value of the setting UW_TOKEN_MAX_AGE that is explored.
MaxAge == 300

(* ------------------------------------------------------------------ *)
(* Python and JSON values                                              *)
(* ------------------------------------------------------------------ *)

\* Python's None where a string is expected: no string, since a string is
\* a sequence of single characters.
None == <<"None">>

\* JSON values whose type the code or PyJWT tests.
Num(n) == [t |-> "num", n |-> n]
Str(s) == [t |-> "str", s |-> s]

\* A JSON string that spells the integer n.
NumStr(n) == [t |-> "numstr", n |-> n]

\* int(x) of a JSON value: the number, also of a string that spells one,
\* or nothing (ValueError) for any other string.
PyInt(v) == IF v.t \in {"num", "numstr"} THEN {v.n} ELSE {}

\* A dict without one of its keys.
Without(d, k) == [f \in DOMAIN d \ {k} |-> d[f]]

Min(S) == CHOOSE x \in S : \A y \in S : x <= y
Max(S) == CHOOSE x \in S : \A y \in S : x >= y

(* ------------------------------------------------------------------ *)
(* Settings and class attributes                                       *)
(* ------------------------------------------------------------------ *)

\* id_token.py:26
SIGNING_ALGORITHMS == {"RS256", "RS384", "RS512", "ES256"}

\* JWT_OPTIONS with the signature check switched off.
JWT_OPTIONS_NoSignature ==
    [require_exp |-> TRUE, require_iat |-> TRUE, verify_signature |-> FALSE,
     verify_iat |-> TRUE, verify_exp |-> TRUE, verify_iss |-> TRUE,
     verify_aud |-> TRUE]

\* JWT_OPTIONS with the expiry check switched off.
JWT_OPTIONS_NoExp ==
    [require_exp |-> TRUE, require_iat |-> TRUE, verify_signature |-> TRUE,
     verify_iat |-> TRUE, verify_exp |-> FALSE, verify_iss |-> TRUE,
     verify_aud |-> TRUE]

\* id_token.py:18-22
JWT_OPTIONS ==
    [require_exp |-> TRUE, require_iat |-> TRUE, verify_signature |-> TRUE,
     verify_iat |-> TRUE, verify_exp |-> TRUE, verify_iss |-> TRUE,
     verify_aud |-> TRUE]

\* settings.UW_TOKEN_ISSUER, with its default
UW_TOKEN_ISSUER == "https://idp-eval.u.washington.edu"

\* settings.UW_TOKEN_AUDIENCE
UW_TOKEN_AUDIENCE == "oidc/myapp"

\* settings.UW_TOKEN_LEEWAY, with its default
UW_TOKEN_LEEWAY == 1

\* The values of settings.UW_TOKEN_MAX_AGE explored: 0 is the default.
MaxAgeSettings == {0, MaxAge}

\* middleware.py:18
TOKEN_SESSION_KEY == "uw_oidc_idtoken"

(* ------------------------------------------------------------------ *)
(* Python string operations                                            *)
(* ------------------------------------------------------------------ *)

\* str.find: the first index at which pat occurs in s, 0 when it does not.
Find(s, pat) ==
    LET at == {i \in 1..(Len(s) - Len(pat) + 1) :
                   SubSeq(s, i, i + Len(pat) - 1) = pat}
    IN  IF at = {} THEN 0 ELSE Min(at)

\* s.replace(old, '', 1): s without the first occurrence of old.
ReplaceFirst(s, old) ==
    LET i == Find(s, old)
    IN  IF i = 0 THEN s
        ELSE SubSeq(s, 1, i - 1) \o SubSeq(s, i + Len(old), Len(s))

\* s.split(sep, 1): one part when sep does not occur, else the two parts
\* around its first occurrence.
Split1(s, sep) ==
    LET i == Find(s, sep)
    IN  IF i = 0 THEN <<s>>
        ELSE <<SubSeq(s, 1, i - 1), SubSeq(s, i + Len(sep), Len(s))>>

\* s.rsplit(sep, 1): the same around the last occurrence.
RSplit1(s, sep) ==
    LET at == {i \in 1..(Len(s) - Len(sep) + 1) :
                   SubSeq(s, i, i + Len(sep) - 1) = sep}
    IN  IF at = {} THEN <<s>>
        ELSE <<SubSeq(s, 1, Max(at) - 1),
               SubSeq(s, Max(at) + Len(sep), Len(s))>>

BearerPrefix == <<"B", "e", "a", "r", "e", "r", " ">>

(* ------------------------------------------------------------------ *)
(* Tokens on the wire                                                  *)
(* ------------------------------------------------------------------ *)

\* Key identifiers and the public key the signing-key-set publishes for
\* each.  "k3" and "k4" are identifiers the provider never publishes.
Kids == {"k1", "k2"}
PubKey(kid) == IF kid = "k1" THEN "K1" ELSE IF kid = "k2" THEN "K2" ELSE "K?"

Alice == <<"a", "l", "i", "c", "e", "@", "u", "w">>
Bob == <<"b", "o", "b">>
NoLocalPart == <<"@", "u", "w">>

\* The claims of a token the provider issued for this application, fresh
\* by one second under MaxAge at Now0.
GoodClaims ==
    [sub |-> Alice, exp |-> Num(Now0 + 100), iat |-> Num(Now0 - 10),
     iss |-> UW_TOKEN_ISSUER, aud |-> UW_TOKEN_AUDIENCE,
     auth_time |-> Num(Now0 - MaxAge + 1)]

\* base64url + JSON decoding of a header segment: the dict, or nothing when
\* the segment does not decode to a JSON object.
HeaderJson(seg) ==
    CASE seg = <<"hR1">> -> {[alg |-> "RS256", kid |-> Str("k1")]}
      [] seg = <<"hR2">> -> {[alg |-> "RS256", kid |-> Str("k2")]}
      [] seg = <<"hR3">> -> {[alg |-> "RS256", kid |-> Str("k3")]}
      [] seg = <<"hR4">> -> {[alg |-> "RS256", kid |-> Str("k4")]}
      [] seg = <<"hE1">> -> {[alg |-> "ES256", kid |-> Str("k1")]}
      [] seg = <<"hH1">> -> {[alg |-> "HS256", kid |-> Str("k1")]}
      [] seg = <<"hN1">> -> {[alg |-> "none", kid |-> Str("k1")]}
      [] seg = <<"hNoKid">> -> {[alg |-> "RS256"]}
      [] seg = <<"hEmptyKid">> -> {[alg |-> "RS256", kid |-> Str("")]}
      [] seg = <<"hIntKid">> -> {[alg |-> "RS256", kid |-> Num(7)]}
      [] OTHER -> {}

\* Whether a payload segment is valid base64url.
PayloadB64Ok(seg) == Len(seg) = 1 /\ seg # <<"pBadB64">>

\* JSON decoding of a payload segment: the dict of claims, or nothing when
\* the bytes are not a JSON object.
PayloadJson(seg) ==
    CASE seg = <<"pGood">> -> {GoodClaims}
      [] seg = <<"pBob">> -> {[GoodClaims EXCEPT !.sub = Bob]}
      [] seg = <<"pNoLocal">> -> {[GoodClaims EXCEPT !.sub = NoLocalPart]}
      [] seg = <<"pEmptySub">> -> {[GoodClaims EXCEPT !.sub = <<>>]}
      [] seg = <<"pNoSub">> -> {Without(GoodClaims, "sub")}
      [] seg = <<"pExpired">> -> {[GoodClaims EXCEPT !.exp = Num(Now0 - 5)]}
      [] seg = <<"pExpLeeway">> -> {[GoodClaims EXCEPT !.exp = Num(Now0 - 1)]}
      [] seg = <<"pNoExp">> -> {Without(GoodClaims, "exp")}
      [] seg = <<"pStrExp">> -> {[GoodClaims EXCEPT !.exp = Str("soon")]}
      [] seg = <<"pNoIat">> -> {Without(GoodClaims, "iat")}
      [] seg = <<"pStrIat">> -> {[GoodClaims EXCEPT !.iat = Str("then")]}
      [] seg = <<"pBadIss">> -> {[GoodClaims EXCEPT !.iss = "https://evil"]}
      [] seg = <<"pNoIss">> -> {Without(GoodClaims, "iss")}
      [] seg = <<"pBadAud">> -> {[GoodClaims EXCEPT !.aud = "oidc/other"]}
      [] seg = <<"pNoAud">> -> {Without(GoodClaims, "aud")}
      [] seg = <<"pAuthEdge">> ->
             {[GoodClaims EXCEPT !.auth_time = Num(Now0 - MaxAge)]}
      [] seg = <<"pAuthOld">> ->
             {[GoodClaims EXCEPT !.auth_time = Num(Now0 - MaxAge - 1)]}
      [] seg = <<"pNoAuth">> -> {Without(GoodClaims, "auth_time")}
      [] seg = <<"pStrAuth">> ->
             {[GoodClaims EXCEPT !.auth_time = Str("never")]}
      [] seg = <<"pNumStrAuth">> ->
             {[GoodClaims EXCEPT !.auth_time = NumStr(Now0 - MaxAge)]}
      [] seg = <<"pNumStrIat">> ->
             {[GoodClaims EXCEPT !.iat = NumStr(Now0 - 10)]}
      [] OTHER -> {}

\* base64url decoding of a signature segment: who made the signature over
\* this token's signing input (with which algorithm, and with the private
\* half or, for an HMAC, the bytes of which public key), or nothing when
\* the segment is not base64url.  "sJunk" is bytes nobody's key verifies.
SignatureOf(seg) ==
    CASE seg = <<"sR1">> -> {[alg |-> "RS256", key |-> "K1"]}
      [] seg = <<"sR2">> -> {[alg |-> "RS256", key |-> "K2"]}
      [] seg = <<"sH1">> -> {[alg |-> "HS256", key |-> "K1"]}
      [] seg = <<"sJunk">> -> {[alg |-> "junk", key |-> "junk"]}
      [] OTHER -> {}

(* ------------------------------------------------------------------ *)
(* PyJWT                                                               *)
(* ------------------------------------------------------------------ *)

\* jwt.api_jws._load: the three segments around the first and the last
\* dot, each base64url-decoded, the header also JSON-decoded.
PyJwtLoad(jwt) ==
    LET r == RSplit1(jwt, <<".">>)
        l == Split1(r[1], <<".">>)
    IN  IF Len(r) < 2 \/ Len(l) < 2
          THEN [ok |-> FALSE, err |-> "DecodeError"]
        ELSE IF HeaderJson(l[1]) = {} \/ ~PayloadB64Ok(l[2])
                  \/ SignatureOf(r[2]) = {}
          THEN [ok |-> FALSE, err |-> "DecodeError"]
        ELSE [ok |-> TRUE,
              header |-> CHOOSE h \in HeaderJson(l[1]) : TRUE,
              payload |-> l[2],
              signature |-> CHOOSE g \in SignatureOf(r[2]) : TRUE]

\* jwt.get_unverified_header: _load, then _validate_headers, which wants
\* a kid that is present to be a string.
get_unverified_header(jwt) ==
    LET got == PyJwtLoad(jwt)
    IN  IF ~got.ok THEN got
        ELSE IF "kid" \in DOMAIN got.header /\ got.header.kid.t # "str"
          THEN [ok |-> FALSE, err |-> "InvalidTokenError"]
        ELSE [ok |-> TRUE, headers |-> got.header]

\* Algorithm.verify with the public key `key`: the RSA algorithms accept a
\* signature made with the private half under the same algorithm; an HMAC
\* accepts one made with the same bytes; ES256 does not take an RSA key and
\* "none" verifies nothing when a key is given.
PyJwtVerify(alg, key, signature) ==
    /\ alg \in {"RS256", "RS384", "RS512", "HS256"}
    /\ signature.alg = alg
    /\ signature.key = key

\* jwt.api_jwt._validate_claims: the first check that fails, "" when none.
PyJwtValidateClaims(payload, options, issuer, audience, leeway, now) ==
    IF options.require_exp /\ "exp" \notin DOMAIN payload
      THEN "MissingRequiredClaimError"
    ELSE IF options.require_iat /\ "iat" \notin DOMAIN payload
      THEN "MissingRequiredClaimError"
    ELSE IF "iat" \in DOMAIN payload /\ options.verify_iat
               /\ PyInt(payload.iat) = {}
      THEN "InvalidIssuedAtError"
    ELSE IF "exp" \in DOMAIN payload /\ options.verify_exp
               /\ PyInt(payload.exp) = {}
      THEN "DecodeError"
    ELSE IF "exp" \in DOMAIN payload /\ options.verify_exp
               /\ \E exp \in PyInt(payload.exp) : exp < now - leeway
      THEN "ExpiredSignatureError"
    ELSE IF options.verify_iss /\ "iss" \notin DOMAIN payload
      THEN "MissingRequiredClaimError"
    ELSE IF options.verify_iss /\ payload.iss # issuer
      THEN "InvalidIssuerError"
    ELSE IF options.verify_aud /\ "aud" \notin DOMAIN payload
      THEN "MissingRequiredClaimError"
    ELSE IF options.verify_aud /\ payload.aud # audience
      THEN "InvalidAudienceError"
    ELSE ""

\* jwt.decode: _load, the signature under an algorithm of `algorithms`
\* only, the payload's JSON, then the claims.
PyJwtDecode(jwt, key, algorithms, options, issuer, audience, leeway, now) ==
    LET got == PyJwtLoad(jwt)
    IN  IF ~got.ok THEN got
        ELSE IF options.verify_signature /\ got.header.alg \notin algorithms
          THEN [ok |-> FALSE, err |-> "InvalidAlgorithmError"]
        ELSE IF options.verify_signature /\ got.header.alg = "ES256"
          THEN [ok |-> FALSE, err |-> "InvalidKeyError"]
        ELSE IF options.verify_signature
                  /\ ~PyJwtVerify(got.header.alg, key, got.signature)
          THEN [ok |-> FALSE, err |-> "InvalidSignatureError"]
        ELSE IF PayloadJson(got.payload) = {}
          THEN [ok |-> FALSE, err |-> "DecodeError"]
        ELSE LET payload == CHOOSE c \in PayloadJson(got.payload) : TRUE
                 bad == PyJwtValidateClaims(payload, options, issuer,
                                            audience, leeway, now)
             IN  IF bad # "" THEN [ok |-> FALSE, err |-> bad]
                 ELSE [ok |-> TRUE, payload |-> payload]

(* ------------------------------------------------------------------ *)
(* uw_oidc.exceptions and uw_oidc.jwks                                 *)
(* ------------------------------------------------------------------ *)

NoneStr == "<None>"
Unset == [unset |-> TRUE]
NoExc == [none |-> TRUE]
NoResponse == [none |-> TRUE]

Exc(type, msg) == [type |-> type, msg |-> msg]

\* The exception classes that `except InvalidTokenError` catches.
IsInvalidTokenError(type) ==
    type \in {"InvalidTokenError", "InvalidTokenHeader", "NoMatchingPublicKey"}

\* str(ex): the message the exception was raised with.
ExcStr(exc) == exc.msg

HttpResponse(status, reason) == [status |-> status, reason |-> reason]

\* get_pubkey adding the fetched keys to the ones it holds, in place of
\* replacing them.
get_pubkey_Merge(kid, force_update, cached, published) ==
    LET fetch == force_update \/ kid \notin cached
        held == IF fetch THEN cached \cup published ELSE cached
    IN  [fetch |-> fetch, held |-> held,
         key |-> IF kid \in held THEN PubKey(kid) ELSE NoneStr]

\* UW_JWKS.get_pubkey(kid, force_update) on the cached key set `cached`
\* with `published` at the remote endpoint: whether it fetches, the key set
\* it then holds, and the key it returns.
get_pubkey(kid, force_update, cached, published) ==
    LET fetch == force_update \/ kid \notin cached
        held == IF fetch THEN published ELSE cached
    IN  [fetch |-> fetch, held |-> held,
         key |-> IF kid \in held THEN PubKey(kid) ELSE NoneStr]

(* ------------------------------------------------------------------ *)
(* UWIdPToken                                                          *)
(* ------------------------------------------------------------------ *)

\* extract_keyid without the test for an empty kid.
extract_keyid_NoEmptyCheck(token) ==
    LET got == get_unverified_header(token)
    IN  IF ~got.ok
          THEN [ok |-> FALSE, exc |-> Exc("InvalidTokenHeader", got.err)]
        ELSE IF "kid" \notin DOMAIN got.headers
          THEN [ok |-> FALSE, exc |-> Exc("InvalidTokenHeader", "")]
        ELSE [ok |-> TRUE, kid |-> got.headers.kid.s]

\* extract_keyid: the kid of the unverified header, or InvalidTokenHeader.
extract_keyid(token) ==
    LET got == get_unverified_header(token)
    IN  IF ~got.ok
          THEN [ok |-> FALSE, exc |-> Exc("InvalidTokenHeader", got.err)]
        ELSE IF "kid" \notin DOMAIN got.headers \/ got.headers.kid.s = ""
          THEN [ok |-> FALSE, exc |-> Exc("InvalidTokenHeader", "")]
        ELSE [ok |-> TRUE, kid |-> got.headers.kid.s]

\* get_key: what it asks of JWKS_CLIENT.get_pubkey.
get_key(key_id, force_update) ==
    [kid |-> key_id, force_update |-> force_update]

\* get_token_payload retrying whenever no key was found.
RetryWithRefresh_Always(pubkey, refresh_keys) ==
    pubkey = NoneStr

\* get_token_payload without the retry.
RetryWithRefresh_Never(pubkey, refresh_keys) ==
    FALSE

\* get_token_payload, lines 59-61: whether it calls itself again with
\* refresh_keys=True.
RetryWithRefresh(pubkey, refresh_keys) ==
    pubkey = NoneStr /\ refresh_keys = FALSE

\* decode_token taking the algorithm from the token's own header.
decode_args_HeaderAlg(token, pubkey) ==
    [jwt |-> token, options |-> JWT_OPTIONS, key |-> pubkey,
     algorithms |-> {PyJwtLoad(token).header.alg},
     issuer |-> UW_TOKEN_ISSUER, audience |-> UW_TOKEN_AUDIENCE,
     leeway |-> UW_TOKEN_LEEWAY]

\* decode_token: the arguments it passes to jwt.decode.
decode_args(token, pubkey) ==
    [jwt |-> token, options |-> JWT_OPTIONS, key |-> pubkey,
     algorithms |-> SIGNING_ALGORITHMS, issuer |-> UW_TOKEN_ISSUER,
     audience |-> UW_TOKEN_AUDIENCE, leeway |-> UW_TOKEN_LEEWAY]

decode_token(token, pubkey, clock) ==
    LET a == decode_args(token, pubkey)
    IN  PyJwtDecode(a.jwt, a.key, a.algorithms, a.options, a.issuer,
                    a.audience, a.leeway, clock)

\* valid_auth_time with > for >=.
valid_auth_time_Strict(payload, max_age, clock) ==
    IF max_age = 0 THEN "True"
    ELSE IF "auth_time" \notin DOMAIN payload THEN "False"
    ELSE IF PyInt(payload.auth_time) = {} THEN "ValueError"
    ELSE IF (CHOOSE n \in PyInt(payload.auth_time) : TRUE) > clock - max_age
      THEN "True"
    ELSE "False"

\* valid_auth_time without the test for a maximum age of zero.
valid_auth_time_NoSkip(payload, max_age, clock) ==
    IF "auth_time" \notin DOMAIN payload THEN "False"
    ELSE IF PyInt(payload.auth_time) = {} THEN "ValueError"
    ELSE IF (CHOOSE n \in PyInt(payload.auth_time) : TRUE) >= clock - max_age
      THEN "True"
    ELSE "False"

\* valid_auth_time: "True", "False", or the exception int() lets through.
valid_auth_time(payload, max_age, clock) ==
    IF max_age = 0 THEN "True"
    ELSE LET age_limit == clock - max_age
         IN  IF "auth_time" \notin DOMAIN payload THEN "False"
             ELSE IF PyInt(payload.auth_time) = {} THEN "ValueError"
             ELSE IF (CHOOSE n \in PyInt(payload.auth_time) : TRUE)
                        >= age_limit
               THEN "True"
             ELSE "False"

\* The claims valid_auth_time reads from the payload.
valid_auth_time_reads(max_age) ==
    IF max_age = 0 THEN {} ELSE {"auth_time"}

\* payload.get('sub')
payload_get_sub(payload) ==
    IF "sub" \in DOMAIN payload THEN payload.sub ELSE None

(* ------------------------------------------------------------------ *)
(* IDTokenAuthenticationMiddleware                                     *)
(* ------------------------------------------------------------------ *)

\* process_view, lines 40-41: the token taken from the header value.
bearer_token(header) == ReplaceFirst(header, BearerPrefix)

\* clean_username: the name, or InvalidTokenError('Missing username').
clean_username(name) ==
    IF name = None \/ Len(name) = 0
      THEN [ok |-> FALSE, exc |-> Exc("InvalidTokenError", "Missing username")]
    ELSE [ok |-> TRUE, username |-> Split1(name, <<"@">>)[1]]

\* auth.authenticate(request, remote_user=username) with Django's
\* RemoteUserBackend: no user for an empty name; otherwise the user of that
\* name, or none when the backend rejects it.
authenticate(name) ==
    IF name = <<>> THEN {None} ELSE {None, name}

(* ------------------------------------------------------------------ *)
(* Requests                                                            *)
(* ------------------------------------------------------------------ *)

\* A token of three segments.
Jwt(h, p, g) == <<h, ".", p, ".", g>>

PayloadSyms ==
    {"pGood", "pBob", "pNoLocal", "pEmptySub", "pNoSub", "pExpired",
     "pExpLeeway", "pNoExp", "pStrExp", "pNoIat", "pStrIat", "pBadIss",
     "pNoIss", "pBadAud", "pNoAud", "pAuthEdge", "pAuthOld", "pNoAuth",
     "pStrAuth", "pNumStrAuth", "pNumStrIat", "pBadJson", "pBadB64"}

\* The tokens requests carry: every payload under a good header and
\* signature, every header and signature around the good payload, and
\* strings that are no three segments.
Tokens ==
    {Jwt("hR1", p, "sR1") : p \in PayloadSyms}
    \cup {Jwt("hR2", "pGood", "sR2"), Jwt("hR2", "pBob", "sR1"),
          Jwt("hR3", "pGood", "sR1"), Jwt("hE1", "pGood", "sR1"),
          Jwt("hH1", "pGood", "sH1"), Jwt("hH1", "pGood", "sR1"),
          Jwt("hN1", "pGood", "sJunk"), Jwt("hNoKid", "pGood", "sR1"),
          Jwt("hEmptyKid", "pGood", "sR1"), Jwt("hIntKid", "pGood", "sR1"),
          Jwt("hBad", "pGood", "sR1"), Jwt("hR1", "pGood", "sJunk"),
          Jwt("hR1", "pGood", "sBadB64"), Jwt("hR1", "pBob", "sR2")}
    \cup {<<>>, <<"hR1">>, <<"hR1", ".", "pGood">>,
          <<"hR1", ".", "pGood", ".", "x", ".", "sR1">>}

\* The values of the Authorization header: "Bearer <token>" for every
\* token, and values where "Bearer " is missing, doubled or not in front.
Headers ==
    {BearerPrefix \o t : t \in Tokens}
    \cup {Jwt("hR1", "pGood", "sR1"),
          BearerPrefix \o BearerPrefix \o Jwt("hR1", "pGood", "sR1"),
          <<"hR1", ".", "pGood", ".">> \o BearerPrefix \o <<"sR1">>,
          <<"x">> \o BearerPrefix \o Jwt("hR1", "pBob", "sR1"),
          <<"b", "e", "a", "r", "e", "r", " ">> \o Jwt("hR1", "pGood", "sR1")}

\* The token a session that exists before the request may hold.
EarlierToken == Jwt("hR1", "pBob", "sR1")

(* ------------------------------------------------------------------ *)
(* State                                                               *)
(* ------------------------------------------------------------------ *)

\* The workers that handle requests; Spec runs the first one alone.
Procs == {1, 2}

VARIABLES
    jwks,          \* the key identifiers the remote signing-key-set publishes
    cache,         \* the key identifiers UWIdPToken.JWKS_CLIENT holds
    fetched,       \* the key set a worker's refresh has fetched and not
                   \* yet put in the cache: {} when it has none
    now,           \* the server clock
    max_age,       \* settings.UW_TOKEN_MAX_AGE
    pc,            \* where each worker is in process_view
    META,          \* request.META: {} or {the HTTP_AUTHORIZATION value}
    user,          \* request.user: None when anonymous
    session,       \* request.session[TOKEN_SESSION_KEY], None when not set
    token,         \* self.token
    key_id,        \* self.key_id
    refresh_keys,  \* get_token_payload's refresh_keys
    pubkey,        \* get_token_payload's pubkey
    payload,       \* self.payload
    returned,      \* what username_from_token returned: {} before it does
    username,      \* process_view's username: {} before it is set
    authUser,      \* process_view's user: {} before it is set
    raised,        \* the exception raised in the request
    response,      \* the response process_view returned
    lookups,       \* history: the get_pubkey calls of the request
    decodeCall,    \* history: the jwt.decode call of the request
    fresh,         \* history: what valid_auth_time returned, and when
    reads,         \* history: the payload claims read outside jwt.decode
    before         \* history: request.user and the session's token when
                   \* the request arrived

shared == <<jwks, cache, fetched, now, max_age>>
request == <<META, user, session>>
verifier == <<token, key_id, refresh_keys, pubkey, payload, returned>>
adapter == <<username, authUser, raised, response>>
history == <<lookups, decodeCall, fresh, reads, before>>
vars == <<shared, pc, request, verifier, adapter, history>>

NoFresh == [result |-> "unset"]

Init ==
    /\ jwks \in SUBSET Kids \ {{}}
    /\ cache = {}
    /\ fetched = [p \in Procs |-> {}]
    /\ now = Now0
    /\ max_age \in MaxAgeSettings
    /\ pc = [p \in Procs |-> "idle"]
    /\ META = [p \in Procs |-> {}]
    /\ user = [p \in Procs |-> None]
    /\ session = [p \in Procs |-> None]
    /\ token = [p \in Procs |-> None]
    /\ key_id = [p \in Procs |-> NoneStr]
    /\ refresh_keys = [p \in Procs |-> FALSE]
    /\ pubkey = [p \in Procs |-> NoneStr]
    /\ payload = [p \in Procs |-> Unset]
    /\ returned = [p \in Procs |-> {}]
    /\ username = [p \in Procs |-> {}]
    /\ authUser = [p \in Procs |-> {}]
    /\ raised = [p \in Procs |-> NoExc]
    /\ response = [p \in Procs |-> NoResponse]
    /\ lookups = [p \in Procs |-> <<>>]
    /\ decodeCall = [p \in Procs |-> Unset]
    /\ fresh = [p \in Procs |-> NoFresh]
    /\ reads = [p \in Procs |-> {}]
    /\ before = [p \in Procs |-> [user |-> None, session |-> None]]

\* An exception raised inside process_view's try: a 401 when the except
\* clause catches it, else it leaves process_view.
Raise(p, exc) ==
    /\ raised' = [raised EXCEPT ![p] = exc]
    /\ IF IsInvalidTokenError(exc.type)
         THEN /\ response' = [response EXCEPT
                                 ![p] = HttpResponse(401, ExcStr(exc))]
              /\ pc' = [pc EXCEPT ![p] = "returned"]
         ELSE /\ pc' = [pc EXCEPT ![p] = "propagated"]
              /\ UNCHANGED response

(* ------------------------------------------------------------------ *)
(* Actions                                                             *)
(* ------------------------------------------------------------------ *)

\* A request reaches the middleware: with or without an Authorization
\* header, in a new session or in one that is already logged in.
Request(p, values) ==
    /\ pc[p] \in {"idle", "returned", "propagated"}
    /\ \E meta \in {{}} \cup {{h} : h \in values},
          u \in {None, Bob}, t \in {None, EarlierToken} :
          /\ u = None => t = None
          /\ META' = [META EXCEPT ![p] = meta]
          /\ user' = [user EXCEPT ![p] = u]
          /\ session' = [session EXCEPT ![p] = t]
          /\ before' = [before EXCEPT ![p] = [user |-> u, session |-> t]]
    /\ pc' = [pc EXCEPT ![p] = "process_view"]
    /\ token' = [token EXCEPT ![p] = None]
    /\ key_id' = [key_id EXCEPT ![p] = NoneStr]
    /\ refresh_keys' = [refresh_keys EXCEPT ![p] = FALSE]
    /\ pubkey' = [pubkey EXCEPT ![p] = NoneStr]
    /\ payload' = [payload EXCEPT ![p] = Unset]
    /\ returned' = [returned EXCEPT ![p] = {}]
    /\ username' = [username EXCEPT ![p] = {}]
    /\ authUser' = [authUser EXCEPT ![p] = {}]
    /\ raised' = [raised EXCEPT ![p] = NoExc]
    /\ response' = [response EXCEPT ![p] = NoResponse]
    /\ lookups' = [lookups EXCEPT ![p] = <<>>]
    /\ decodeCall' = [decodeCall EXCEPT ![p] = Unset]
    /\ fresh' = [fresh EXCEPT ![p] = NoFresh]
    /\ reads' = [reads EXCEPT ![p] = {}]
    /\ UNCHANGED shared

\* ProcessView without the test of request.user.is_authenticated.
ProcessView_NoSessionCheck(p) ==
    /\ pc[p] = "process_view"
    /\ IF META[p] = {}
         THEN /\ pc' = [pc EXCEPT ![p] = "returned"]
              /\ UNCHANGED token
         ELSE /\ token' = [token EXCEPT
                   ![p] = bearer_token(CHOOSE h \in META[p] : TRUE)]
              /\ pc' = [pc EXCEPT ![p] = "extract_keyid"]
    /\ UNCHANGED <<shared, request, key_id, refresh_keys, pubkey, payload,
                   returned, adapter, history>>

\* ProcessView storing the token in the session before it is verified.
ProcessView_RecordsFirst(p) ==
    /\ pc[p] = "process_view"
    /\ IF META[p] = {} \/ user[p] # None
         THEN /\ pc' = [pc EXCEPT ![p] = "returned"]
              /\ UNCHANGED <<token, session>>
         ELSE /\ token' = [token EXCEPT
                   ![p] = bearer_token(CHOOSE h \in META[p] : TRUE)]
              /\ session' = [session EXCEPT
                   ![p] = bearer_token(CHOOSE h \in META[p] : TRUE)]
              /\ pc' = [pc EXCEPT ![p] = "extract_keyid"]
    /\ UNCHANGED <<shared, META, user, key_id, refresh_keys, pubkey,
                   payload, returned, adapter, history>>

\* process_view up to username_from_token's first line: nothing to do
\* without the header or for a logged-in user, else the token is taken
\* from the header value and handed to a new UWIdPToken.
ProcessView(p) ==
    /\ pc[p] = "process_view"
    /\ IF META[p] = {} \/ user[p] # None
         THEN /\ pc' = [pc EXCEPT ![p] = "returned"]
              /\ UNCHANGED token
         ELSE /\ token' = [token EXCEPT
                   ![p] = bearer_token(CHOOSE h \in META[p] : TRUE)]
              /\ pc' = [pc EXCEPT ![p] = "extract_keyid"]
    /\ UNCHANGED <<shared, request, key_id, refresh_keys, pubkey, payload,
                   returned, adapter, history>>

\* ExtractKeyid on one verifier that all workers share: its key_id is
\* every worker's.
ExtractKeyid_SharedVerifier(p) ==
    /\ pc[p] = "extract_keyid"
    /\ LET got == extract_keyid(token[p])
       IN  IF got.ok
             THEN /\ key_id' = [q \in Procs |-> got.kid]
                  /\ pc' = [pc EXCEPT ![p] = "get_key"]
                  /\ UNCHANGED <<raised, response>>
             ELSE /\ Raise(p, got.exc)
                  /\ UNCHANGED key_id
    /\ UNCHANGED <<shared, request, token, refresh_keys, pubkey, payload,
                   returned, username, authUser, history>>

\* username_from_token, line 33.
ExtractKeyid(p) ==
    /\ pc[p] = "extract_keyid"
    /\ LET got == extract_keyid(token[p])
       IN  IF got.ok
             THEN /\ key_id' = [key_id EXCEPT ![p] = got.kid]
                  /\ pc' = [pc EXCEPT ![p] = "get_key"]
                  /\ UNCHANGED <<raised, response>>
             ELSE /\ Raise(p, got.exc)
                  /\ UNCHANGED key_id
    /\ UNCHANGED <<shared, request, token, refresh_keys, pubkey, payload,
                   returned, username, authUser, history>>

\* get_token_payload, lines 58-66, once get_pubkey has answered: the retry
\* with refresh_keys=True, NoMatchingPublicKey, or on to decode.
Lookup(p, got) ==
    LET ask == get_key(key_id[p], refresh_keys[p])
    IN  /\ cache' = got.held
        /\ lookups' = [lookups EXCEPT ![p] = Append(@,
               [kid |-> ask.kid, force_update |-> ask.force_update,
                key |-> got.key])]
        /\ pubkey' = [pubkey EXCEPT ![p] = got.key]
        /\ IF got.key # NoneStr
             THEN /\ pc' = [pc EXCEPT ![p] = "decode_token"]
                  /\ UNCHANGED <<refresh_keys, raised, response>>
           ELSE IF RetryWithRefresh(got.key, refresh_keys[p])
             THEN /\ refresh_keys' = [refresh_keys EXCEPT ![p] = TRUE]
                  /\ pc' = [pc EXCEPT ![p] = "get_key"]
                  /\ UNCHANGED <<raised, response>>
           ELSE /\ Raise(p, Exc("NoMatchingPublicKey", key_id[p]))
                /\ UNCHANGED refresh_keys
        /\ UNCHANGED <<jwks, now, max_age, request, token, key_id, payload,
                       returned, username, authUser, decodeCall, fresh,
                       reads, before>>

\* get_token_payload, line 58, with get_pubkey taken as one step.
GetKey(p) ==
    /\ pc[p] = "get_key"
    /\ LET ask == get_key(key_id[p], refresh_keys[p])
       IN  Lookup(p, get_pubkey(ask.kid, ask.force_update, cache, jwks))
    /\ UNCHANGED fetched

\* DecodeToken going back to the key lookup, with refresh_keys=True, the
\* first time jwt.decode fails.
DecodeToken_RetryOnFailure(p) ==
    /\ pc[p] = "decode_token"
    /\ LET got == decode_token(token[p], pubkey[p], now)
       IN  /\ decodeCall' = [decodeCall EXCEPT
                  ![p] = [args |-> decode_args(token[p], pubkey[p]),
                          clock |-> now, ok |-> got.ok]]
           /\ IF got.ok
                THEN /\ payload' = [payload EXCEPT ![p] = got.payload]
                     /\ pc' = [pc EXCEPT ![p] = "valid_auth_time"]
                     /\ UNCHANGED <<refresh_keys, raised, response>>
              ELSE IF ~refresh_keys[p]
                THEN /\ refresh_keys' = [refresh_keys EXCEPT ![p] = TRUE]
                     /\ pc' = [pc EXCEPT ![p] = "get_key"]
                     /\ UNCHANGED <<payload, raised, response>>
              ELSE /\ Raise(p, Exc("InvalidTokenError", got.err))
                   /\ UNCHANGED <<payload, refresh_keys>>
    /\ UNCHANGED <<shared, request, token, key_id, pubkey, returned,
                   username, authUser, lookups, fresh, reads, before>>

\* get_token_payload, lines 68-76.
DecodeToken(p) ==
    /\ pc[p] = "decode_token"
    /\ LET got == decode_token(token[p], pubkey[p], now)
       IN  /\ decodeCall' = [decodeCall EXCEPT
                  ![p] = [args |-> decode_args(token[p], pubkey[p]),
                          clock |-> now, ok |-> got.ok]]
           /\ IF got.ok
                THEN /\ payload' = [payload EXCEPT ![p] = got.payload]
                     /\ pc' = [pc EXCEPT ![p] = "valid_auth_time"]
                     /\ UNCHANGED <<raised, response>>
                ELSE /\ Raise(p, Exc("InvalidTokenError", got.err))
                     /\ UNCHANGED payload
    /\ UNCHANGED <<shared, request, token, key_id, refresh_keys, pubkey,
                   returned, username, authUser, lookups, fresh, reads,
                   before>>

\* username_from_token, lines 35-37.
ValidAuthTime(p) ==
    /\ pc[p] = "valid_auth_time"
    /\ LET ok == valid_auth_time(payload[p], max_age, now)
       IN  /\ fresh' = [fresh EXCEPT ![p] = [result |-> ok, clock |-> now]]
           /\ IF ok = "True"
                THEN /\ returned' = [returned EXCEPT
                           ![p] = {payload_get_sub(payload[p])}]
                     /\ reads' = [reads EXCEPT
                           ![p] = @ \cup valid_auth_time_reads(max_age)
                                    \cup {"sub"}]
                     /\ pc' = [pc EXCEPT ![p] = "clean_username"]
                     /\ UNCHANGED <<raised, response>>
                ELSE /\ reads' = [reads EXCEPT
                           ![p] = @ \cup valid_auth_time_reads(max_age)]
                     /\ Raise(p, IF ok = "False"
                                   THEN Exc("InvalidTokenError", "AuthTimedOut")
                                   ELSE Exc("ValueError", "invalid literal"))
                     /\ UNCHANGED returned
    /\ UNCHANGED <<shared, request, token, key_id, refresh_keys, pubkey,
                   payload, username, authUser, lookups, decodeCall,
                   before>>

\* process_view, line 42.
CleanUsername(p) ==
    /\ pc[p] = "clean_username"
    /\ LET got == clean_username(CHOOSE r \in returned[p] : TRUE)
       IN  IF got.ok
             THEN /\ username' = [username EXCEPT ![p] = {got.username}]
                  /\ pc' = [pc EXCEPT ![p] = "authenticate"]
                  /\ UNCHANGED <<raised, response>>
             ELSE /\ Raise(p, got.exc)
                  /\ UNCHANGED username
    /\ UNCHANGED <<shared, request, verifier, authUser, history>>

\* Authenticate without the test of `if user:`.
Authenticate_NoUserTest(p) ==
    /\ pc[p] = "authenticate"
    /\ \E u \in authenticate(CHOOSE n \in username[p] : TRUE) :
          /\ authUser' = [authUser EXCEPT ![p] = {u}]
          /\ pc' = [pc EXCEPT ![p] = "login"]
    /\ UNCHANGED <<shared, request, verifier, username, raised, response,
                   history>>

\* process_view, lines 45-46.
Authenticate(p) ==
    /\ pc[p] = "authenticate"
    /\ \E u \in authenticate(CHOOSE n \in username[p] : TRUE) :
          /\ authUser' = [authUser EXCEPT ![p] = {u}]
          /\ pc' = [pc EXCEPT ![p] = IF u # None THEN "login" ELSE "returned"]
    /\ UNCHANGED <<shared, request, verifier, username, raised, response,
                   history>>

\* process_view, line 49.
Login(p) ==
    /\ pc[p] = "login"
    /\ user' = [user EXCEPT ![p] = CHOOSE u \in authUser[p] : TRUE]
    /\ pc' = [pc EXCEPT ![p] = "record"]
    /\ UNCHANGED <<shared, META, session, verifier, adapter, history>>

\* RecordToken storing the header value in place of the token.
RecordToken_RawHeader(p) ==
    /\ pc[p] = "record"
    /\ session' = [session EXCEPT ![p] = CHOOSE h \in META[p] : TRUE]
    /\ pc' = [pc EXCEPT ![p] = "returned"]
    /\ UNCHANGED <<shared, META, user, verifier, adapter, history>>

\* process_view, lines 50-53 and 56.
RecordToken(p) ==
    /\ pc[p] = "record"
    /\ session' = [session EXCEPT ![p] = token[p]]
    /\ pc' = [pc EXCEPT ![p] = "returned"]
    /\ UNCHANGED <<shared, META, user, verifier, adapter, history>>

\* The clock advances.
Tick ==
    /\ now < Now0 + MaxTick
    /\ now' = now + 1
    /\ UNCHANGED <<jwks, cache, fetched, max_age, pc, request, verifier,
                   adapter, history>>

\* The provider rotates its signing keys.
Rotate ==
    /\ \E published \in SUBSET Kids \ {{}, jwks} : jwks' = published
    /\ UNCHANGED <<cache, fetched, now, max_age, pc, request, verifier,
                   adapter, history>>

Step(p, values) ==
    \/ Request(p, values)
    \/ ProcessView(p)
    \/ ExtractKeyid(p)
    \/ GetKey(p)
    \/ DecodeToken(p)
    \/ ValidAuthTime(p)
    \/ CleanUsername(p)
    \/ Authenticate(p)
    \/ Login(p)
    \/ RecordToken(p)

\* One worker handling one request after another.
Next ==
    \/ Step(1, Headers)
    \/ Tick
    \/ Rotate

Spec == Init /\ [][Next]_vars

(* ------------------------------------------------------------------ *)
(* Concurrent requests                                                 *)
(* ------------------------------------------------------------------ *)

\* The tokens of concurrent requests: two good ones of different keys and
\* subjects, an expired one, one with a bad signature, two whose kid is
\* not published.
ConcTokens ==
    {Jwt("hR1", "pGood", "sR1"), Jwt("hR2", "pBob", "sR2"),
     Jwt("hR1", "pExpired", "sR1"), Jwt("hR1", "pGood", "sJunk"),
     Jwt("hR3", "pGood", "sR1"), Jwt("hR4", "pGood", "sR1")}

ConcHeaders == {BearerPrefix \o t : t \in ConcTokens}

\* get_pubkey answering from the cache, which holds the kid.
GetKeyHit(p) ==
    /\ LET ask == get_key(key_id[p], refresh_keys[p])
       IN  ~get_pubkey(ask.kid, ask.force_update, cache, jwks).fetch
    /\ GetKey(p)

\* get_pubkey on a miss or a forced update, first half: the published key
\* set is fetched, whole, while other workers go on.
FetchKeys(p) ==
    /\ pc[p] = "get_key"
    /\ LET ask == get_key(key_id[p], refresh_keys[p])
       IN  get_pubkey(ask.kid, ask.force_update, cache, jwks).fetch
    /\ fetched' = [fetched EXCEPT ![p] = {jwks}]
    /\ pc' = [pc EXCEPT ![p] = "fetch_keys"]
    /\ UNCHANGED <<jwks, cache, now, max_age, request, verifier, adapter,
                   history>>

\* get_pubkey, second half: the fetched key set replaces the cache and the
\* kid is looked up in it.
SwapKeys(p) ==
    /\ pc[p] = "fetch_keys"
    /\ LET ask == get_key(key_id[p], refresh_keys[p])
       IN  Lookup(p, get_pubkey(ask.kid, TRUE, cache,
                                CHOOSE s \in fetched[p] : TRUE))
    /\ fetched' = [fetched EXCEPT ![p] = {}]

StepConc(p, values) ==
    \/ Request(p, values)
    \/ ProcessView(p)
    \/ ExtractKeyid(p)
    \/ GetKeyHit(p)
    \/ FetchKeys(p)
    \/ SwapKeys(p)
    \/ DecodeToken(p)
    \/ ValidAuthTime(p)
    \/ CleanUsername(p)
    \/ Authenticate(p)
    \/ Login(p)
    \/ RecordToken(p)

\* The workers handling requests at the same time, their steps interleaved,
\* while the provider rotates its keys; the clock stands still.
NextConc ==
    \/ \E p \in Procs : StepConc(p, ConcHeaders)
    \/ Rotate

\* The state before the first request, with UW_TOKEN_MAX_AGE at its default.
InitConc == Init /\ max_age = 0

SpecConc == InitConc /\ [][NextConc]_vars

(* ------------------------------------------------------------------ *)
(* Properties                                                          *)
(* ------------------------------------------------------------------ *)

Last(q) == q[Len(q)]

\* The kid in the header of a token, NoneStr when there is none to take.
OwnKid(jwt) ==
    LET got == get_unverified_header(jwt)
    IN  IF got.ok /\ "kid" \in DOMAIN got.headers
          THEN got.headers.kid.s ELSE NoneStr

\* jwt.decode has succeeded in this request, verifying the signature of
\* the request's whole token with the key the cache returned last, asked
\* for the kid of the token's own header.
VerifiedByOwnKey(p) ==
    /\ decodeCall[p] # Unset
    /\ decodeCall[p].ok
    /\ decodeCall[p].args.options.verify_signature
    /\ decodeCall[p].args.jwt = token[p]
    /\ lookups[p] # <<>>
    /\ Last(lookups[p]).key # NoneStr
    /\ Last(lookups[p]).kid = OwnKid(token[p])
    /\ decodeCall[p].args.key = Last(lookups[p]).key
    /\ decodeCall[p].args.key = PubKey(OwnKid(token[p]))

\* C1: no claim of the payload (sub, auth_time) is read, and no payload is
\* held, before jwt.decode has succeeded on the request's whole token with
\* the key the cache returned for the kid of the token's own header; a
\* subject is returned, and a username derived from it, only after that
\* and after valid_auth_time returned True.
C1_NoClaimBeforeVerification ==
    \A p \in Procs :
        /\ reads[p] # {} => VerifiedByOwnKey(p)
        /\ payload[p] # Unset => VerifiedByOwnKey(p)
        /\ returned[p] # {} =>
               VerifiedByOwnKey(p) /\ fresh[p].result = "True"
        /\ username[p] # {} => returned[p] # {}

C1_Witness ==
    \E p \in Procs :
        /\ reads[p] = {"auth_time", "sub"}
        /\ returned[p] = {Alice}
        /\ VerifiedByOwnKey(p)

\* The algorithm the header of a token names.
HeaderAlg(jwt) == PyJwtLoad(jwt).header.alg

\* C2: jwt.decode is always given the allowlist RS256, RS384, RS512, ES256
\* whatever the token's header says, and a token whose header names an
\* algorithm outside it fails with InvalidTokenError and yields no subject,
\* also when the cache holds a key for its kid.
C2_AlgorithmAllowlist ==
    \A p \in Procs :
        decodeCall[p] # Unset =>
            /\ decodeCall[p].args.algorithms
                   = {"RS256", "RS384", "RS512", "ES256"}
            /\ HeaderAlg(token[p]) \notin {"RS256", "RS384", "RS512", "ES256"}
                   => /\ ~decodeCall[p].ok
                      /\ raised[p] # NoExc
                      /\ raised[p].type = "InvalidTokenError"
                      /\ returned[p] = {}

\* An HS256 token whose HMAC was made with the bytes of the public key the
\* cache returned for its kid is rejected.
C2_Witness ==
    \E p \in Procs :
        /\ token[p] = Jwt("hH1", "pGood", "sH1")
        /\ decodeCall[p] # Unset
        /\ decodeCall[p].args.key = "K1"
        /\ raised[p] = Exc("InvalidTokenError", "InvalidAlgorithmError")

\* The header of a token cannot be used: the token is malformed, or its
\* header has no kid or an empty one.
HeaderUnusable(jwt) ==
    LET got == get_unverified_header(jwt)
    IN  \/ ~got.ok
        \/ "kid" \notin DOMAIN got.headers
        \/ got.headers.kid.s = ""

\* C3: a token that is malformed, or whose header has no kid or an empty
\* kid, fails with InvalidTokenHeader once extract_keyid has run, and no
\* get_pubkey call has been made in that request.
C3_InvalidHeaderBeforeLookup ==
    \A p \in Procs :
        /\ lookups[p] # <<>> => ~HeaderUnusable(token[p])
        /\ (token[p] # None /\ HeaderUnusable(token[p])
                /\ pc[p] # "extract_keyid")
               => /\ raised[p] # NoExc
                  /\ raised[p].type = "InvalidTokenHeader"
                  /\ lookups[p] = <<>>
                  /\ key_id[p] = NoneStr

C3_Witness ==
    \E p \in Procs :
        /\ token[p] = Jwt("hEmptyKid", "pGood", "sR1")
        /\ raised[p] = Exc("InvalidTokenHeader", "")
        /\ lookups[p] = <<>>

\* C4: the first lookup of a request has force_update false; a second one
\* has force_update true and follows a first that returned None; there is
\* no third; and when the second returns None too the request fails with
\* NoMatchingPublicKey(kid), which is raised in no other case.
C4_AtMostOneForcedLookup ==
    \A p \in Procs :
        LET L == lookups[p]
        IN  /\ Len(L) <= 2
            /\ Len(L) >= 1 => ~L[1].force_update
            /\ Len(L) = 2 => L[2].force_update /\ L[1].key = NoneStr
            /\ (Len(L) = 2 /\ L[2].key = NoneStr)
                   => raised[p] = Exc("NoMatchingPublicKey", key_id[p])
            /\ (raised[p] # NoExc /\ raised[p].type = "NoMatchingPublicKey")
                   => Len(L) = 2 /\ L[2].key = NoneStr

C4_Witness ==
    \E p \in Procs :
        /\ Len(lookups[p]) = 2
        /\ lookups[p][2].key = NoneStr
        /\ raised[p] = Exc("NoMatchingPublicKey", "k3")

\* How many lookups of a request forced a refresh of the key set.
ForcedLookups(p) ==
    Cardinality({i \in DOMAIN lookups[p] : lookups[p][i].force_update})

\* C5: when the first lookup of a request returned None, the verifier
\* retries exactly once, with a forced refresh, and that is the only
\* refresh it asks for; when the retry returns a key, the request does not
\* fail with NoMatchingPublicKey and jwt.decode is called on the token with
\* that key.
C5_OneRetryThenDecode ==
    \A p \in Procs :
        LET L == lookups[p]
        IN  (L # <<>> /\ L[1].key = NoneStr /\ pc[p] # "get_key")
               => /\ Len(L) = 2
                  /\ ForcedLookups(p) = 1
                  /\ L[2].key # NoneStr
                        => /\ pubkey[p] = L[2].key
                           /\ raised[p] # Exc("NoMatchingPublicKey", key_id[p])
                           /\ pc[p] # "decode_token"
                                 => /\ decodeCall[p] # Unset
                                    /\ decodeCall[p].args.key = L[2].key
                                    /\ decodeCall[p].args.jwt = token[p]

\* The kid was not published at the first lookup and is at the forced
\* one, and the token then verifies.
C5_Witness ==
    \E p \in Procs :
        /\ Len(lookups[p]) = 2
        /\ lookups[p][1].key = NoneStr
        /\ lookups[p][2].key = "K2"
        /\ decodeCall[p] # Unset
        /\ decodeCall[p].ok

\* One of the checks of jwt.decode that C6 lists fails for a token, with
\* the key and at the clock of the call: the signature, exp against the
\* leeway, iat, the issuer, the audience, the payload's JSON.
FailsACheck(jwt, key, clock) ==
    LET got == PyJwtLoad(jwt)
        claims == PayloadJson(got.payload)
    IN  \/ ~PyJwtVerify(got.header.alg, key, got.signature)
        \/ claims = {}
        \/ \E c \in claims :
              \/ "exp" \in DOMAIN c /\ c.exp.t \in {"num", "numstr"}
                     /\ c.exp.n < clock - UW_TOKEN_LEEWAY
              \/ "iat" \notin DOMAIN c
              \/ c.iat.t \notin {"num", "numstr"}
              \/ "iss" \notin DOMAIN c
              \/ c.iss # UW_TOKEN_ISSUER
              \/ "aud" \notin DOMAIN c
              \/ c.aud # UW_TOKEN_AUDIENCE

\* C6: once a key is resolved and jwt.decode is called, a token with a bad
\* signature, an exp before now minus the leeway, a missing or non-numeric
\* iat, another or no issuer, another or no audience, or a payload that is
\* no JSON object fails with InvalidTokenError: no payload is kept and no
\* subject returned.
C6_DecodeFailureIsInvalidToken ==
    \A p \in Procs :
        (decodeCall[p] # Unset
            /\ FailsACheck(token[p], decodeCall[p].args.key,
                           decodeCall[p].clock))
           => /\ raised[p] # NoExc
              /\ raised[p].type = "InvalidTokenError"
              /\ payload[p] = Unset
              /\ returned[p] = {}

C6_Witness ==
    \E p \in Procs :
        /\ token[p] = Jwt("hR1", "pExpired", "sR1")
        /\ decodeCall[p] # Unset
        /\ raised[p] = Exc("InvalidTokenError", "ExpiredSignatureError")

\* C7: with a non-zero maximum age, valid_auth_time returns True, and a
\* subject is returned, exactly when the payload has a numeric auth_time
\* with auth_time >= now - max_age, the boundary included and without
\* leeway; a missing or an older auth_time fails with
\* InvalidTokenError("AuthTimedOut").
C7_FreshnessBoundary ==
    \A p \in Procs :
        (fresh[p].result # "unset" /\ max_age # 0) =>
            LET c == payload[p]
                has == "auth_time" \in DOMAIN c
                           /\ c.auth_time.t \in {"num", "numstr"}
                limit == fresh[p].clock - max_age
            IN  /\ fresh[p].result = "True" <=> (has /\ c.auth_time.n >= limit)
                /\ returned[p] # {} <=> (has /\ c.auth_time.n >= limit)
                /\ ("auth_time" \notin DOMAIN c
                        \/ (has /\ c.auth_time.n < limit))
                       => /\ raised[p]
                                = Exc("InvalidTokenError", "AuthTimedOut")
                          /\ returned[p] = {}
                /\ (has /\ c.auth_time.n = limit - 1)
                       => fresh[p].result = "False"
                /\ (has /\ c.auth_time.n = limit + 1)
                       => fresh[p].result = "True"

\* An auth_time of exactly now - max_age passes.
C7_Witness ==
    \E p \in Procs :
        /\ max_age = MaxAge
        /\ fresh[p].result = "True"
        /\ payload[p].auth_time = Num(fresh[p].clock - MaxAge)
        /\ returned[p] # {}

\* C8: with a maximum age of zero valid_auth_time returns True without
\* reading auth_time, so the subject is returned whatever auth_time is,
\* also when it is missing or no number.
C8_ZeroMaxAgeSkipsFreshness ==
    \A p \in Procs :
        (fresh[p].result # "unset" /\ max_age = 0) =>
            /\ fresh[p].result = "True"
            /\ "auth_time" \notin reads[p]
            /\ returned[p] = {IF "sub" \in DOMAIN payload[p]
                                THEN payload[p].sub ELSE None}
            /\ raised[p] # Exc("InvalidTokenError", "AuthTimedOut")

C8_Witness ==
    \E p \in Procs :
        /\ max_age = 0
        /\ token[p] = Jwt("hR1", "pStrAuth", "sR1")
        /\ fresh[p].result = "True"
        /\ returned[p] = {Alice}

\* The part of a string before its first "@", the whole string without one.
BeforeAt(name) ==
    LET at == {i \in 1..Len(name) : name[i] = "@"}
    IN  IF at = {} THEN name ELSE SubSeq(name, 1, Min(at) - 1)

\* C9: clean_username gives the part of the subject before its first "@",
\* and the request fails with InvalidTokenError("Missing username"), with
\* no login, whenever the subject is absent or that part is empty.
C9_MissingUsername ==
    \A p \in Procs :
        (returned[p] # {} /\ pc[p] # "clean_username") =>
            LET sub == CHOOSE r \in returned[p] : TRUE
            IN  IF sub = None \/ BeforeAt(sub) = <<>>
                  THEN /\ raised[p]
                             = Exc("InvalidTokenError", "Missing username")
                       /\ username[p] = {}
                       /\ user[p] = None
                  ELSE username[p] = {BeforeAt(sub)}

\* A header value without "Bearer " in front, or with it removed once.
StripLeadingBearer(header) ==
    IF Len(header) >= Len(BearerPrefix)
           /\ SubSeq(header, 1, Len(BearerPrefix)) = BearerPrefix
      THEN SubSeq(header, Len(BearerPrefix) + 1, Len(header))
      ELSE header

\* C10: the token that is verified is the header value with a leading
\* "Bearer " removed once; a value that does not start with "Bearer " is
\* verified unchanged.
C10_BearerPrefixStripped ==
    \A p \in Procs :
        token[p] # None =>
            token[p] = StripLeadingBearer(CHOOSE h \in META[p] : TRUE)

\* The request has logged in the user auth.authenticate returned for the
\* name clean_username made of the subject.
LoggedInAsUsername(p) ==
    /\ username[p] # {}
    /\ authUser[p] = username[p]
    /\ user[p] \in username[p]

NothingToVerify(p) == META[p] = {} \/ before[p].user # None

\* No stage of the verifier has run in the request, and nothing was
\* raised, returned as a response, or changed in the user and the session.
Untouched(p) ==
    /\ token[p] = None
    /\ key_id[p] = NoneStr
    /\ lookups[p] = <<>>
    /\ pubkey[p] = NoneStr
    /\ decodeCall[p] = Unset
    /\ payload[p] = Unset
    /\ fresh[p] = NoFresh
    /\ reads[p] = {}
    /\ returned[p] = {}
    /\ username[p] = {}
    /\ authUser[p] = {}
    /\ raised[p] = NoExc
    /\ response[p] = NoResponse
    /\ user[p] = before[p].user
    /\ session[p] = before[p].session

\* C12: a request without an Authorization header, or whose user is
\* already logged in, is answered in one step that returns no response and
\* changes nothing but the worker's position: neither the key cache, nor
\* the user, the session and its token; from its arrival on, no header is
\* parsed, no key looked up and nothing decoded, whatever the header
\* holds, and this is so for every such request, a repeated one too.
C12_NothingToVerifyIsANoOp ==
    /\ [](\A p \in Procs :
            (NothingToVerify(p) /\ pc[p] # "idle")
               => /\ Untouched(p)
                  /\ pc[p] \in {"process_view", "returned"})
    /\ [][\A p \in Procs :
            (NothingToVerify(p) /\ pc[p] = "process_view"
                  /\ pc'[p] # pc[p])
               => /\ pc'[p] = "returned"
                  /\ UNCHANGED <<shared, request, verifier, adapter,
                                 history>>]_vars

\* A request of a logged-in user that carries a token which would fail
\* has returned.
C12_Witness ==
    \E p \in Procs :
        /\ pc[p] = "returned"
        /\ META[p] = {BearerPrefix \o Jwt("hR1", "pExpired", "sR1")}
        /\ before[p] = [user |-> Bob, session |-> EarlierToken]
        /\ user[p] = Bob
        /\ session[p] = EarlierToken

\* C13: every failure raised while process_view verifies a token is caught
\* and answered with a 401 whose reason is str() of the exception, so no
\* request ends with an exception leaving process_view; a token whose kid
\* no published key set holds is answered with the 401 of
\* NoMatchingPublicKey.
C13_EveryFailureIsA401 ==
    \A p \in Procs :
        /\ pc[p] # "propagated"
        /\ raised[p] # NoExc
              => /\ pc[p] = "returned"
                 /\ response[p] = HttpResponse(401, ExcStr(raised[p]))
                 /\ user[p] = None
        /\ (token[p] # None /\ OwnKid(token[p]) \notin Kids \cup {NoneStr, ""}
                /\ pc[p] \notin {"extract_keyid", "get_key"})
              => /\ raised[p].type = "NoMatchingPublicKey"
                 /\ response[p].status = 401

\* The kind of the failure a request ended with: the class of the
\* exception and the stage of the verifier or the adapter that raised it.
FailureKind(p) ==
    <<raised[p].type,
      IF key_id[p] = NoneStr THEN "extract_keyid"
      ELSE IF decodeCall[p] = Unset THEN "get_key"
      ELSE IF ~decodeCall[p].ok THEN "decode_token"
      ELSE IF fresh[p].result # "True" THEN "valid_auth_time"
      ELSE "clean_username">>

\* C14: the reason of a 401 depends on the kind of the failure only: two
\* requests that failed with the same kind of failure have the same reason,
\* whatever the text of the underlying exception, the token and its kid.
C14_ReasonDependsOnKindOnly ==
    \A p, q \in Procs :
        (/\ response[p] # NoResponse
         /\ response[q] # NoResponse
         /\ response[p].status = 401
         /\ response[q].status = 401
         /\ FailureKind(p) = FailureKind(q))
            => response[p].reason = response[q].reason

\* The request carried an Authorization header, its user was not logged in
\* when it arrived, and process_view is over.
BearerRequestEnded(p) ==
    /\ META[p] # {}
    /\ before[p].user = None
    /\ pc[p] \in {"returned", "propagated"}

\* The request ended with a user logged in and its token in the session.
SessionEstablished(p) ==
    /\ pc[p] = "returned"
    /\ response[p] = NoResponse
    /\ user[p] # None
    /\ session[p] = token[p]

\* The request ended with a 401.
Rejected(p) ==
    /\ pc[p] = "returned"
    /\ response[p] # NoResponse
    /\ response[p].status = 401

\* C15: a request with an Authorization header and no logged-in user ends
\* in exactly one of two ways: with a user logged in and the token in the
\* session, or with a 401.
C15_SessionOrRejection ==
    \A p \in Procs :
        BearerRequestEnded(p) => (SessionEstablished(p) # Rejected(p))

\* The token was verified and auth.authenticate returned no user:
\* process_view returned None, with nobody logged in and nothing stored.
ContinuedAnonymous(p) ==
    /\ pc[p] = "returned"
    /\ response[p] = NoResponse
    /\ raised[p] = NoExc
    /\ VerifiedByOwnKey(p)
    /\ fresh[p].result = "True"
    /\ authUser[p] = {None}
    /\ user[p] = None
    /\ session[p] = None

\* An exception that `except InvalidTokenError` does not catch has left
\* process_view, with nobody logged in and nothing stored: the ValueError
\* of an auth_time that is no number.
Unhandled(p) ==
    /\ pc[p] = "propagated"
    /\ response[p] = NoResponse
    /\ raised[p] # NoExc
    /\ raised[p].type = "ValueError"
    /\ fresh[p].result = "ValueError"
    /\ user[p] = None
    /\ session[p] = None

\* C15, amended: a request with an Authorization header and no logged-in
\* user ends in exactly one of four ways: with the user of the cleaned
\* username logged in and the token in the session; with a 401, nobody
\* logged in and nothing stored; with None returned and the request left
\* anonymous, when the token verified and auth.authenticate returned no
\* user; or with the ValueError of a non-numeric auth_time leaving
\* process_view.
C15_FourOutcomes ==
    \A p \in Procs :
        BearerRequestEnded(p) =>
            /\ Cardinality({o \in 1..4 :
                  \/ o = 1 /\ SessionEstablished(p)
                  \/ o = 2 /\ Rejected(p)
                  \/ o = 3 /\ ContinuedAnonymous(p)
                  \/ o = 4 /\ Unhandled(p)}) = 1
            /\ SessionEstablished(p) =>
                  LoggedInAsUsername(p) /\ raised[p] = NoExc
            /\ Rejected(p) =>
                  /\ response[p] = HttpResponse(401, ExcStr(raised[p]))
                  /\ user[p] = None
                  /\ session[p] = None

\* A request whose token verified has returned with no user logged in and
\* no response.
C15_Witness ==
    \E p \in Procs :
        /\ BearerRequestEnded(p)
        /\ ContinuedAnonymous(p)
        /\ token[p] = Jwt("hR1", "pGood", "sR1")
        /\ username[p] = {<<"a", "l", "i", "c", "e">>}

StagesInOrder(p) ==
    /\ lookups[p] # <<>> => key_id[p] # NoneStr
    /\ decodeCall[p] # Unset
          => /\ lookups[p] # <<>>
             /\ Last(lookups[p]).key # NoneStr
             /\ decodeCall[p].args.key = Last(lookups[p]).key
    /\ fresh[p] # NoFresh => (decodeCall[p] # Unset /\ decodeCall[p].ok)
    /\ returned[p] # {} => fresh[p].result = "True"
    /\ raised[p] # NoExc
          => /\ pc[p] \in {"returned", "propagated"}
             /\ returned[p] = {} => username[p] = {}
             /\ authUser[p] = {}
    /\ (raised[p] # NoExc /\ raised[p].type = "InvalidTokenHeader")
          => /\ key_id[p] = NoneStr
             /\ lookups[p] = <<>>
             /\ decodeCall[p] = Unset
             /\ fresh[p] = NoFresh
    /\ (raised[p] # NoExc /\ raised[p].type = "NoMatchingPublicKey")
          => /\ Last(lookups[p]).key = NoneStr
             /\ decodeCall[p] = Unset
             /\ fresh[p] = NoFresh
    /\ (decodeCall[p] # Unset /\ ~decodeCall[p].ok)
          => /\ raised[p] # NoExc
             /\ raised[p].type = "InvalidTokenError"
             /\ payload[p] = Unset
             /\ fresh[p] = NoFresh
             /\ returned[p] = {}
    /\ (fresh[p] # NoFresh /\ fresh[p].result # "True")
          => (raised[p] # NoExc /\ returned[p] = {})

\* C17: the verifier runs header extraction, key lookup, jwt.decode and
\* the freshness check in that order and stops at the first failure: no
\* stage has run whose predecessor has not succeeded, and once a failure is
\* raised nothing of the attempt changes. Once jwt.decode has been called,
\* whatever it answered, the request makes no further key lookup, asks for
\* no refresh and calls jwt.decode no second time; a token whose kid is
\* not published fails with NoMatchingPublicKey and jwt.decode not called.
C17_StagesInOrderStopAtFirstFailure ==
    /\ [](\A p \in Procs :
            /\ StagesInOrder(p)
            /\ (token[p] # None /\ OwnKid(token[p]) \in {"k3", "k4"}
                     /\ pc[p] \notin {"extract_keyid", "get_key"})
                  => /\ raised[p] = Exc("NoMatchingPublicKey",
                                        OwnKid(token[p]))
                     /\ decodeCall[p] = Unset)
    /\ [][\A p \in Procs :
            /\ (decodeCall[p] # Unset /\ pc'[p] # "process_view")
                  => /\ decodeCall'[p] = decodeCall[p]
                     /\ lookups'[p] = lookups[p]
                     /\ refresh_keys'[p] = refresh_keys[p]
                     /\ pubkey'[p] = pubkey[p]
                     /\ cache' = cache
            /\ (raised[p] # NoExc /\ pc'[p] # "process_view")
                  => /\ UNCHANGED <<token[p], key_id[p], lookups[p],
                                    decodeCall[p], payload[p], fresh[p],
                                    returned[p], raised[p], response[p],
                                    user[p], session[p]>>]_vars

\* jwt.decode has failed on a bad signature after one lookup that found
\* the key: no refresh was asked for and the request has ended.
C17_Witness ==
    \E p \in Procs :
        /\ token[p] = Jwt("hR1", "pGood", "sJunk")
        /\ raised[p] = Exc("InvalidTokenError", "InvalidSignatureError")
        /\ Len(lookups[p]) = 1
        /\ ForcedLookups(p) = 0
        /\ ~decodeCall[p].ok
        /\ pc[p] = "returned"

\* C18: when process_view has returned a 401, request.user and the
\* session's token are what they were when the request arrived, and
\* auth.authenticate was not reached; and a request in which a user was
\* logged in or a token stored has raised no failure and returns no 401,
\* so no failed attempt has logged in or stored a token at any point.
C18_RejectionLeavesUserAndSession ==
    \A p \in Procs :
        /\ response[p] # NoResponse
              => /\ response[p].status = 401
                 /\ user[p] = before[p].user
                 /\ session[p] = before[p].session
                 /\ user[p] = None
                 /\ authUser[p] = {}
        /\ (user[p] # before[p].user \/ session[p] # before[p].session
                \/ pc[p] \in {"login", "record"})
              => /\ response[p] = NoResponse
                 /\ raised[p] = NoExc

\* A request whose token is too old has been answered with a 401, its
\* user anonymous and its session without a token.
C18_Witness ==
    \E p \in Procs :
        /\ pc[p] = "returned"
        /\ response[p] = HttpResponse(401, "AuthTimedOut")
        /\ token[p] = Jwt("hR1", "pAuthOld", "sR1")
        /\ user[p] = None
        /\ session[p] = None

\* The claims in the payload segment of a token.
OwnClaims(jwt) == PayloadJson(PyJwtLoad(jwt).payload)

\* C19: with two requests interleaved, each worker's attempt works on its
\* own request only: its token is that of its own Authorization header,
\* the key id it holds and every key it looks up are of the kid in its own
\* token's header, jwt.decode is called on its own token with the key of
\* that kid, the payload it holds is the one in its own token, and the
\* subject returned, the username and the user logged in are that
\* payload's.
C19_AttemptsAreIsolated ==
    \A p \in Procs :
        /\ token[p] # None
              => token[p] = bearer_token(CHOOSE h \in META[p] : TRUE)
        /\ key_id[p] # NoneStr => key_id[p] = OwnKid(token[p])
        /\ \A i \in DOMAIN lookups[p] :
              /\ lookups[p][i].kid = OwnKid(token[p])
              /\ lookups[p][i].key \in {NoneStr, PubKey(OwnKid(token[p]))}
        /\ pubkey[p] \in {NoneStr, PubKey(OwnKid(token[p]))}
        /\ decodeCall[p] # Unset
              => /\ decodeCall[p].args.jwt = token[p]
                 /\ decodeCall[p].args.key = PubKey(OwnKid(token[p]))
        /\ payload[p] # Unset => payload[p] \in OwnClaims(token[p])
        /\ returned[p] # {}
              => \E c \in OwnClaims(token[p]) :
                    returned[p] = {payload_get_sub(c)}
        /\ username[p] # {}
              => \E c \in OwnClaims(token[p]) :
                    username[p] = {clean_username(payload_get_sub(c)).username}
        /\ (user[p] # before[p].user \/ session[p] # before[p].session)
              => /\ user[p] \in username[p]
                 /\ session[p] \in {None, token[p]}

\* Two attempts are under way at once, on tokens of different keys and
\* subjects, and each has been returned the subject of its own token.
C19_Witness ==
    \E p, q \in Procs :
        /\ pc[p] = "clean_username"
        /\ pc[q] = "clean_username"
        /\ token[p] = Jwt("hR1", "pGood", "sR1")
        /\ token[q] = Jwt("hR2", "pBob", "sR2")
        /\ returned[p] = {Alice}
        /\ returned[q] = {Bob}

====
